---- MODULE Spec2Model ----
(***************************************************************************)
(* A model of playwright_web_scrapping.py: the cached-session login        *)
(* (authenticate), the per-image classifier (is_meaningful_image and its   *)
(* probes) and the crawl loop (crawl_links / extract_images).              *)
(*                                                                         *)
(* Python values are encoded so that every field has one shape:            *)
(*   an Optional value is a tuple, None == <<>> and Some(x) == <<x>>;      *)
(*   an attribute text is a sequence of one-character strings.             *)
(***************************************************************************)
EXTENDS Integers, Sequences, FiniteSets, TLC

VARIABLES
    call, ret,          \* a classifier function called on its own
    pc, exc,            \* position of the run; the exception in flight
    artifact0,          \* the session artifact on disk when the run starts
    artifact,           \* the session artifact on disk now
    playwright,         \* the async_playwright() scope of each function
    browser,            \* the browser each function launched
    seeded,             \* the artifact content each function's context read
    is_logged_in,       \* the login-presence predicate, once evaluated
    login,              \* the fresh login flow: attempts, steps done
    links, site,        \* crawl_links' argument; what the site's pages hold
    i,                  \* index of the for loop over links
    opened,             \* the links a page was opened for, in order
    failed,             \* the links whose page took the except branch
    open_pages,         \* pages of the crawl context that are open now
    images,             \* image elements of the page not yet classified
    page_lists,         \* extract_images' all_images and meaningful_images
    result,             \* what extract_images returned to crawl_links
    all_meaningful_images, all_images, all_svgs,
    files,              \* the output files written, in order
    served              \* elements the site has served so far

classifyVars == <<call, ret>>
pageVars == <<opened, failed, open_pages, images, page_lists, result, served>>
aggregates == <<all_meaningful_images, all_images, all_svgs>>
crawlVars == <<links, site, i, pageVars, aggregates, files>>
authVars == <<artifact0, artifact, seeded, is_logged_in, login>>
scopeVars == <<playwright, browser>>
vars == <<classifyVars, pc, exc, authVars, scopeVars, crawlVars>>

(***************************************************************************)
(* Bounds of the model.                                                    *)
(***************************************************************************)
MaxAttrLen == 3
SizeSpread == 1
AuthMaxAgeHours == 1
MaxLinks == 11
MaxElements == 2

(***************************************************************************)
(* Program constants.                                                      *)
(***************************************************************************)
LargeFileThreshold == 10240
MinImageShape == 100
SecondsPerHour == 3600
MaxCrawlLinks == 10
URL == 1
AUTH_MAX_AGE == AuthMaxAgeHours * SecondsPerHour

(***************************************************************************)
(* Optional values.                                                        *)
(***************************************************************************)
None == <<>>
Some(x) == <<x>>
IsNone(o) == o = <<>>
Val(o) == o[1]

(***************************************************************************)
(* Attribute texts and Python's int(text).                                 *)
(***************************************************************************)
Chars == {"0", "1", "x", "-"}
Digits == {"0", "1"}
DigitVal(c) == IF c = "1" THEN 1 ELSE 0

AttrTexts == UNION {[1..n -> Chars] : n \in 0..MaxAttrLen}
AttrValues == {None} \cup {Some(t) : t \in AttrTexts}

\* Python truthiness of an Optional[str]: None and "" are falsy.
Truthy(attr) == ~IsNone(attr) /\ Val(attr) # <<>>

RECURSIVE DigitsValue(_, _)
DigitsValue(t, acc) ==
    IF t = <<>> THEN acc
    ELSE DigitsValue(Tail(t), 10 * acc + DigitVal(Head(t)))

AllDigits(t) == t # <<>> /\ \A k \in 1..Len(t) : t[k] \in Digits

\* int(text): an optional sign followed by decimal digits; anything else
\* raises ValueError, rendered as None.
ParseInt(t) ==
    IF AllDigits(t) THEN Some(DigitsValue(t, 0))
    ELSE IF t # <<>> /\ Head(t) = "-" /\ AllDigits(Tail(t))
         THEN Some(0 - DigitsValue(Tail(t), 0))
         ELSE None

(***************************************************************************)
(* Resource locators: a text is a sequence of pieces, the first of which   *)
(* is the scheme prefix when there is one.                                 *)
(***************************************************************************)
RelativeSrc == <<"img/a.png">>
HttpSrc == <<"http://", "cdn/b.png">>
HttpsSrc == <<"https://", "cdn/c.png">>

\* src.startswith(('http://', 'https://'))
StartsWithHttp(src) == src # <<>> /\ Head(src) \in {"http://", "https://"}

(***************************************************************************)
(* Outcomes of the in-page probes.                                         *)
(***************************************************************************)
\* image.evaluate(...getBoundingClientRect...): raises, or yields the pair
\* {isTopSection, isBottomSection}.
GeometryProbes ==
    [raises : {TRUE}, isTopSection : {FALSE}, isBottomSection : {FALSE}]
    \cup [raises : {FALSE}, isTopSection : BOOLEAN, isBottomSection : BOOLEAN]

\* Content-Length values around the threshold, and two far from it.
ContentLengths ==
    {0, 500, 20000}
    \cup ((LargeFileThreshold - SizeSpread)..(LargeFileThreshold + SizeSpread))

\* page.evaluate(fetch HEAD): the evaluation itself raises, the fetch inside
\* the page throws, the response has no Content-Length, or it declares n.
SizeProbes ==
    [kind : {"evaluate_raises", "fetch_fails", "no_content_length"}, n : {0}]
    \cup [kind : {"content_length"}, n : ContentLengths]

(***************************************************************************)
(* is_header_footer_logo: <<is_header, is_footer, is_logo>>.               *)
(***************************************************************************)
is_header_footer_logo(geom) ==
    IF geom.raises
    THEN <<None, None, FALSE>>
    ELSE LET is_header == geom.isTopSection
             is_footer == geom.isBottomSection
         IN  IF is_header \/ is_footer
             THEN <<Some(is_header), Some(is_footer), TRUE>>
             ELSE <<Some(is_header), Some(is_footer), FALSE>>

(***************************************************************************)
(* check_file_image_size: <<file_size, is_large_file>>.                    *)
(***************************************************************************)
\* The script run in the page: parseInt(Content-Length || '0'), 0 on a throw.
ResponseSize(probe) ==
    IF probe.kind = "content_length" THEN probe.n ELSE 0

check_file_image_size_ge(probe) ==
    IF probe.kind = "evaluate_raises"
    THEN <<None, FALSE>>
    ELSE <<Some(ResponseSize(probe)), ResponseSize(probe) >= LargeFileThreshold>>

check_file_image_size(probe) ==
    IF probe.kind = "evaluate_raises"
    THEN <<None, FALSE>>
    ELSE <<Some(ResponseSize(probe)), ResponseSize(probe) > LargeFileThreshold>>

(***************************************************************************)
(* check_image_size: <<width, height, has_image_shape>>.                   *)
(***************************************************************************)
check_image_size_one_side(width, height) ==
    IF ~Truthy(width) \/ ~Truthy(height)
    THEN <<None, None, FALSE>>
    ELSE LET w == ParseInt(Val(width))
             h == ParseInt(Val(height))
         IN  IF IsNone(w) \/ IsNone(h)
             THEN <<None, None, FALSE>>
             ELSE IF Val(w) > MinImageShape \/ Val(h) > MinImageShape
                  THEN <<w, h, TRUE>>
                  ELSE <<None, None, FALSE>>

check_image_size(width, height) ==
    IF ~Truthy(width) \/ ~Truthy(height)
    THEN <<None, None, FALSE>>
    ELSE LET w == ParseInt(Val(width))
             h == ParseInt(Val(height))
         IN  IF IsNone(w) \/ IsNone(h)
             THEN <<None, None, FALSE>>
             ELSE IF Val(w) > MinImageShape /\ Val(h) > MinImageShape
                  THEN <<w, h, TRUE>>
                  ELSE <<None, None, FALSE>>

(***************************************************************************)
(* is_meaningful_image.  An image element is described by what its         *)
(* attribute reads and probes yield; detached means that reading an        *)
(* attribute raises.  The result is [raised, value]: value is None when    *)
(* the element is skipped and Some(record) otherwise.                      *)
(***************************************************************************)
ScrapedImage(src, url, alt) ==
    [src |-> src, url |-> url, alt |-> alt,
     is_header |-> Some(FALSE), is_footer |-> Some(FALSE), is_logo |-> FALSE,
     file_size |-> Some(0), is_large_file |-> FALSE,
     width |-> None, height |-> None, has_image_shape |-> FALSE,
     is_meaningful |-> FALSE, screenshot_path |-> None]

Classified(image, url) ==
    LET pos == is_header_footer_logo(image.geom)
        size == check_file_image_size(image.probe)
        shape == check_image_size(image.width, image.height)
    IN  [ScrapedImage(Val(image.src), url, image.alt) EXCEPT
            !.is_header = pos[1], !.is_footer = pos[2], !.is_logo = pos[3],
            !.file_size = size[1], !.is_large_file = size[2],
            !.width = shape[1], !.height = shape[2],
            !.has_image_shape = shape[3],
            !.is_meaningful = ~pos[3] /\ size[2] /\ shape[3]]

is_meaningful_image_ignores_logo(image, url) ==
    IF image.detached
    THEN [raised |-> TRUE, value |-> None]
    ELSE IF ~Truthy(image.src)
         THEN [raised |-> FALSE, value |-> None]
         ELSE [raised |-> FALSE,
               value |-> Some([Classified(image, url) EXCEPT
                   !.is_meaningful =
                       Classified(image, url).is_large_file
                       /\ Classified(image, url).has_image_shape])]

is_meaningful_image_skips_only_absent_src(image, url) ==
    IF image.detached
    THEN [raised |-> TRUE, value |-> None]
    ELSE IF IsNone(image.src)
         THEN [raised |-> FALSE, value |-> None]
         ELSE [raised |-> FALSE, value |-> Some(Classified(image, url))]

is_meaningful_image(image, url) ==
    IF image.detached
    THEN [raised |-> TRUE, value |-> None]
    ELSE IF ~Truthy(image.src)
         THEN [raised |-> FALSE, value |-> None]
         ELSE [raised |-> FALSE, value |-> Some(Classified(image, url))]

(***************************************************************************)
(* save_image_screenshot.  shot says what the two tiers meet: element is   *)
(* what re-locating and screenshotting the element does, direct what       *)
(* navigating a secondary page to the locator does.  The result is the     *)
(* returned path and whether a secondary page was left open.               *)
(***************************************************************************)
ShotOutcomes ==
    [element : {"found", "missing", "raises"},
     direct : {"ok", "goto_raises", "screenshot_raises"}]

\* f"{index}_{basename}", under SCREENSHOT_DIR; the basename of "" is ""
FilePath(src, index) == <<index, IF src = <<>> THEN "" ELSE src[Len(src)]>>

save_image_screenshot_direct_failure_raises(image_data, index, shot) ==
    LET filepath == Some(FilePath(image_data.src, index))
    IN  IF shot.element = "found"
        THEN [raised |-> FALSE, path |-> filepath, tiers |-> <<"element">>,
              left_open |-> FALSE]
        ELSE IF StartsWithHttp(image_data.src)
             THEN [raised |-> shot.direct # "ok",
                   path |-> IF shot.direct = "ok" THEN filepath ELSE None,
                   tiers |-> <<"element", "direct">>,
                   left_open |-> shot.direct # "ok"]
             ELSE [raised |-> FALSE, path |-> None, tiers |-> <<"element">>,
                   left_open |-> FALSE]

\* raised: an exception leaves the function (every branch is inside the
\* outer try); tiers: the methods tried, in order.
save_image_screenshot(image_data, index, shot) ==
    LET filepath == Some(FilePath(image_data.src, index))
    IN  IF shot.element = "found"
        THEN [raised |-> FALSE, path |-> filepath, tiers |-> <<"element">>,
              left_open |-> FALSE]
        ELSE IF StartsWithHttp(image_data.src)
             THEN IF shot.direct = "ok"
                  THEN [raised |-> FALSE, path |-> filepath,
                        tiers |-> <<"element", "direct">>,
                        left_open |-> FALSE]
                  ELSE [raised |-> FALSE, path |-> None,
                        tiers |-> <<"element", "direct">>,
                        left_open |-> TRUE]
             ELSE [raised |-> FALSE, path |-> None, tiers |-> <<"element">>,
                   left_open |-> FALSE]

(***************************************************************************)
(* extract_svgs.  A page holds three lists of elements: inline svg, img    *)
(* with a .svg source, and object/embed.  An element is described by what  *)
(* its attribute reads, evaluations and screenshot yield.                  *)
(***************************************************************************)
\* int(text) if text and text.isdigit() else None
DigitsOrNone(attr) ==
    IF Truthy(attr) /\ AllDigits(Val(attr))
    THEN Some(DigitsValue(Val(attr), 0)) ELSE None

ScrapedSVG(url, is_inline, content, src) ==
    [url |-> url, is_inline |-> is_inline, content |-> content, src |-> src,
     width |-> None, height |-> None,
     is_header |-> Some(FALSE), is_footer |-> Some(FALSE), is_logo |-> FALSE,
     screenshot_path |-> None]

\* One pass of the first loop: None when the except branch drops the element.
InlineSvg(svg, url, index) ==
    IF IsNone(svg.content) \/ IsNone(svg.position)
    THEN None
    ELSE Some([ScrapedSVG(url, TRUE, svg.content, None) EXCEPT
                  !.width = DigitsOrNone(svg.width),
                  !.height = DigitsOrNone(svg.height),
                  !.is_header = Some(Val(svg.position).isHeader),
                  !.is_footer = Some(Val(svg.position).isFooter),
                  !.is_logo = Val(svg.position).isLogo,
                  !.screenshot_path =
                      IF svg.shot_ok THEN Some(<<"inline_svg", index>>)
                      ELSE None])

\* One pass of the second loop: None when src is missing.
ImgSvg(img, url, index) ==
    IF ~Truthy(img.src)
    THEN None
    ELSE LET pos == is_header_footer_logo(img.geom)
         IN  Some([ScrapedSVG(url, FALSE, None, img.src) EXCEPT
                      !.width = DigitsOrNone(img.width),
                      !.height = DigitsOrNone(img.height),
                      !.is_header = pos[1],
                      !.is_footer = pos[2],
                      !.is_logo = pos[3],
                      !.screenshot_path =
                          IF img.shot_ok THEN Some(<<"svg_img", index>>)
                          ELSE None])

ObjectSvg_keeps_missing_src(obj, url) ==
    LET src == IF Truthy(obj.data) THEN obj.data ELSE obj.src
    IN  Some(ScrapedSVG(url, FALSE, None, src))

\* One pass of the third loop: data, else src, and None without either.
ObjectSvg(obj, url) ==
    LET src == IF Truthy(obj.data) THEN obj.data ELSE obj.src
    IN  IF ~Truthy(src) THEN None
        ELSE Some(ScrapedSVG(url, FALSE, None, src))

\* The records of a list of optional records, in order.
RECURSIVE Kept(_)
Kept(opts) ==
    IF opts = <<>> THEN <<>>
    ELSE IF IsNone(Head(opts)) THEN Kept(Tail(opts))
         ELSE <<Val(Head(opts))>> \o Kept(Tail(opts))

extract_svgs(found, url) ==
    Kept([k \in 1..Len(found.inline) |-> InlineSvg(found.inline[k], url, k - 1)])
    \o Kept([k \in 1..Len(found.img) |-> ImgSvg(found.img[k], url, k - 1)])
    \o Kept([k \in 1..Len(found.object) |-> ObjectSvg(found.object[k], url)])

(***************************************************************************)
(* The run: main awaits authenticate and then crawl_links.                 *)
(*                                                                         *)
(* pc is the statement about to run; exc is "none" or the statement that   *)
(* raised the exception now propagating.  Launching, creating a context,   *)
(* navigating, evaluating, interacting with an element and serializing     *)
(* can each raise; opening or closing a page of a live context and         *)
(* closing a browser are taken to succeed.                                 *)
(***************************************************************************)
Functions == {"authenticate", "crawl_links"}

NoArtifact == [exists |-> FALSE, age |-> 0, content |-> "absent"]
CachedArtifact(age) == [exists |-> TRUE, age |-> age, content |-> "cached"]
\* What context.storage_state(path=AUTH_STATE_PATH) leaves on disk.
LoginArtifact == [exists |-> TRUE, age |-> 0, content |-> "login"]

\* File ages at the start of a run, in seconds, on both sides of the limit.
Ages == {0, AUTH_MAX_AGE - 1, AUTH_MAX_AGE, AUTH_MAX_AGE + 1}
StartArtifacts == {NoArtifact} \cup {CachedArtifact(age) : age \in Ages}

LoginSteps ==
    {"login_new_context", "login_goto", "login_fill_username",
     "login_fill_password", "login_click", "login_wait", "login_save_state"}
ValidationSteps ==
    {"auth_seed_context", "auth_test_goto", "auth_test_evaluate"}

InitRun(start) ==
    /\ pc = start
    /\ exc = "none"
    /\ playwright = [f \in Functions |-> "idle"]
    /\ browser = [f \in Functions |-> "unbound"]
    /\ seeded = [f \in Functions |-> None]
    /\ is_logged_in = None
    /\ login = [attempts |-> 0, done |-> {}, saved |-> 0]
    /\ i = 0
    /\ opened = <<>>
    /\ failed = {}
    /\ open_pages = {}
    /\ images = <<>>
    /\ page_lists = [all_images |-> <<>>, meaningful_images |-> <<>>]
    /\ result = <<>>
    /\ all_meaningful_images = <<>>
    /\ all_images = <<>>
    /\ all_svgs = <<>>
    /\ files = <<>>
    /\ served = 0

\* A statement that can raise: it completes and control moves to next, or
\* it raises and control moves to handler.
Await(at, next, handler) ==
    /\ pc = at
    /\ \E ok \in BOOLEAN :
           IF ok
           THEN pc' = next /\ exc' = exc
           ELSE pc' = handler /\ exc' = at

(***************************************************************************)
(* authenticate                                                            *)
(***************************************************************************)
\* Lines 91-99: the artifact exists and its age is below AUTH_MAX_AGE.
auth_state_valid_le(a) == a.exists /\ a.age <= AUTH_MAX_AGE

auth_state_valid(a) == a.exists /\ a.age < AUTH_MAX_AGE

\* async with async_playwright() as p; browser = await p.chromium.launch()
AuthLaunch ==
    /\ Await("auth_launch", "auth_check", "auth_exit")
    /\ playwright' = [playwright EXCEPT !["authenticate"] = "active"]
    /\ browser' = [browser EXCEPT !["authenticate"] =
                       IF exc' = "none" THEN "open" ELSE "unbound"]
    /\ UNCHANGED <<classifyVars, authVars, crawlVars>>

AuthCheckState ==
    /\ pc = "auth_check"
    /\ pc' = IF auth_state_valid(artifact)
             THEN "auth_seed_context" ELSE "login_new_context"
    /\ UNCHANGED <<classifyVars, exc, authVars, scopeVars, crawlVars>>

\* context = await browser.new_context(storage_state=AUTH_STATE_PATH);
\* page = await context.new_page()
AuthSeedContext ==
    /\ Await("auth_seed_context", "auth_test_goto", "auth_exit")
    /\ seeded' = IF exc' = "none"
                 THEN [seeded EXCEPT !["authenticate"] = Some(artifact.content)]
                 ELSE seeded
    /\ UNCHANGED <<classifyVars, artifact0, artifact, is_logged_in, login,
                   scopeVars, crawlVars>>

\* await page.goto(URL)
AuthTestGoto ==
    /\ Await("auth_test_goto", "auth_test_evaluate", "auth_exit")
    /\ UNCHANGED <<classifyVars, authVars, scopeVars, crawlVars>>

AuthTestEvaluate_ignores_predicate ==
    /\ pc = "auth_test_evaluate"
    /\ \/ \E logged \in BOOLEAN :
              /\ is_logged_in' = Some(logged)
              /\ pc' = "auth_exit"
              /\ exc' = exc
       \/ /\ pc' = "auth_exit"
          /\ exc' = "auth_test_evaluate"
          /\ is_logged_in' = is_logged_in
    /\ UNCHANGED <<classifyVars, artifact0, artifact, seeded, login, scopeVars,
                   crawlVars>>

\* is_logged_in = await page.evaluate(...); await page.close();
\* if is_logged_in: return context
AuthTestEvaluate ==
    /\ pc = "auth_test_evaluate"
    /\ \/ \E logged \in BOOLEAN :
              /\ is_logged_in' = Some(logged)
              /\ pc' = IF logged THEN "auth_exit" ELSE "login_new_context"
              /\ exc' = exc
       \/ /\ pc' = "auth_exit"
          /\ exc' = "auth_test_evaluate"
          /\ is_logged_in' = is_logged_in
    /\ UNCHANGED <<classifyVars, artifact0, artifact, seeded, login, scopeVars,
                   crawlVars>>

LoginStep(at, next, handler) ==
    /\ Await(at, next, handler)
    /\ login' = IF exc' = "none"
                THEN [login EXCEPT !.done = @ \cup {at}]
                ELSE login

\* context = await browser.new_context(); page = await context.new_page()
LoginNewContext ==
    /\ pc = "login_new_context"
    /\ \E ok \in BOOLEAN :
           IF ok
           THEN /\ pc' = "login_goto" /\ exc' = exc
                /\ login' = [login EXCEPT !.attempts = @ + 1,
                                          !.done = @ \cup {"login_new_context"}]
           ELSE /\ pc' = "auth_exit" /\ exc' = "login_new_context"
                /\ login' = [login EXCEPT !.attempts = @ + 1]
    /\ UNCHANGED <<classifyVars, artifact0, artifact, seeded, is_logged_in,
                   scopeVars, crawlVars>>

\* await page.goto(AUTHENTICATION_URL), before the try block
LoginGoto ==
    /\ LoginStep("login_goto", "login_fill_username", "auth_exit")
    /\ UNCHANGED <<classifyVars, artifact0, artifact, seeded, is_logged_in,
                   scopeVars, crawlVars>>

LoginFillUsername ==
    /\ LoginStep("login_fill_username", "login_fill_password", "login_except")
    /\ UNCHANGED <<classifyVars, artifact0, artifact, seeded, is_logged_in,
                   scopeVars, crawlVars>>

LoginFillPassword ==
    /\ LoginStep("login_fill_password", "login_click", "login_except")
    /\ UNCHANGED <<classifyVars, artifact0, artifact, seeded, is_logged_in,
                   scopeVars, crawlVars>>

LoginClick ==
    /\ LoginStep("login_click", "login_wait", "login_except")
    /\ UNCHANGED <<classifyVars, artifact0, artifact, seeded, is_logged_in,
                   scopeVars, crawlVars>>

\* await page.wait_for_load_state("networkidle"); await asyncio.sleep(2)
LoginWaitNetworkIdle ==
    /\ LoginStep("login_wait", "login_save_state", "login_except")
    /\ UNCHANGED <<classifyVars, artifact0, artifact, seeded, is_logged_in,
                   scopeVars, crawlVars>>

LoginSaveState_writes_before_failing ==
    /\ pc = "login_save_state"
    /\ \E ok \in BOOLEAN :
           IF ok
           THEN /\ pc' = "auth_exit" /\ exc' = exc
                /\ artifact' = LoginArtifact
                /\ login' = [login EXCEPT !.done = @ \cup {"login_save_state"},
                                          !.saved = @ + 1]
           ELSE /\ pc' = "login_except" /\ exc' = "login_save_state"
                /\ artifact' = LoginArtifact
                /\ login' = login
    /\ UNCHANGED <<classifyVars, artifact0, seeded, is_logged_in, scopeVars,
                   crawlVars>>

\* await context.storage_state(path=AUTH_STATE_PATH); await page.close();
\* return context
LoginSaveState ==
    /\ pc = "login_save_state"
    /\ \E ok \in BOOLEAN :
           IF ok
           THEN /\ pc' = "auth_exit" /\ exc' = exc
                /\ artifact' = LoginArtifact
                /\ login' = [login EXCEPT !.done = @ \cup {"login_save_state"},
                                          !.saved = @ + 1]
           ELSE /\ pc' = "login_except" /\ exc' = "login_save_state"
                /\ UNCHANGED <<artifact, login>>
    /\ UNCHANGED <<classifyVars, artifact0, seeded, is_logged_in, scopeVars,
                   crawlVars>>

LoginExcept_without_raise ==
    /\ pc = "login_except"
    /\ browser' = [browser EXCEPT !["authenticate"] = "closed"]
    /\ pc' = "auth_exit"
    /\ exc' = "none"
    /\ UNCHANGED <<classifyVars, authVars, playwright, crawlVars>>

\* except Exception: await browser.close(); raise
LoginExcept ==
    /\ pc = "login_except"
    /\ browser' = [browser EXCEPT !["authenticate"] = "closed"]
    /\ pc' = "auth_exit"
    /\ UNCHANGED <<classifyVars, exc, authVars, playwright, crawlVars>>

\* Leaving async with async_playwright(): the driver is stopped, which ends
\* every browser it launched.  main then goes on to crawl_links, or the
\* exception ends the run.
AuthExit ==
    /\ pc = "auth_exit"
    /\ playwright' = [playwright EXCEPT !["authenticate"] = "stopped"]
    /\ pc' = IF exc = "none" THEN "main_crawl" ELSE "aborted"
    /\ UNCHANGED <<classifyVars, exc, authVars, browser, crawlVars>>

Authenticate ==
    \/ AuthLaunch \/ AuthCheckState \/ AuthSeedContext \/ AuthTestGoto
    \/ AuthTestEvaluate \/ LoginNewContext \/ LoginGoto \/ LoginFillUsername
    \/ LoginFillPassword \/ LoginClick \/ LoginWaitNetworkIdle
    \/ LoginSaveState \/ LoginExcept \/ AuthExit

\* A browser is live while it is open and its driver runs.
BrowserLive(f) == browser[f] = "open" /\ playwright[f] = "active"

(***************************************************************************)
(* The site being crawled.  Elements are served as a page is queried, at   *)
(* most MaxElements of them in a run.  Lists of up to MaxLinks links are   *)
(* crawled over a site with a few kinds of element ("plain"); the one      *)
(* configured link, as main passes it, also over a site with every kind    *)
(* of probe outcome ("rich").                                              *)
(***************************************************************************)
Sites == {"plain", "rich"}

Body == [raises |-> FALSE, isTopSection |-> FALSE, isBottomSection |-> FALSE]
Header == [raises |-> FALSE, isTopSection |-> TRUE, isBottomSection |-> FALSE]
Unknown == [raises |-> TRUE, isTopSection |-> FALSE, isBottomSection |-> FALSE]
Big == [kind |-> "content_length", n |-> 20000]
Small == [kind |-> "content_length", n |-> 500]
EvaluateRaises == [kind |-> "evaluate_raises", n |-> 0]
Px101 == Some(<<"1", "0", "1">>)
Px100 == Some(<<"1", "0", "0">>)

Img(src, geom, probe, width, height, detached) ==
    [src |-> src, alt |-> None, geom |-> geom, probe |-> probe,
     width |-> width, height |-> height, detached |-> detached]

PlainImages ==
    {Img(Some(HttpsSrc), Body, Big, Px101, Px101, FALSE),
     Img(Some(RelativeSrc), Header, Big, Px101, Px101, FALSE),
     Img(Some(HttpsSrc), Body, Big, Px101, Px101, TRUE)}

RichImages ==
    PlainImages
    \cup {Img(None, Body, Big, Px101, Px101, FALSE),
          Img(Some(<<>>), Body, Big, Px101, Px101, FALSE),
          Img(Some(RelativeSrc), Body, Big, Px101, Px101, FALSE)}
    \cup {Img(Some(HttpsSrc), geom, probe, width, Px101, FALSE) :
              geom \in {Body, Header}, probe \in {Big, Small},
              width \in {Px101, Px100}}
    \cup {Img(Some(HttpsSrc), Unknown, Big, Px101, Px101, FALSE),
          Img(Some(HttpsSrc), Body, EvaluateRaises, Px101, Px101, FALSE)}

SiteImages(kind) == IF kind = "rich" THEN RichImages ELSE PlainImages

Markup == Some("<svg/>")
SvgSrc == Some(<<"img/logo.svg">>)
TopLeft == Some([isHeader |-> TRUE, isFooter |-> FALSE, isLogo |-> TRUE])

InlineElement(content, position, shot_ok) ==
    [width |-> Px101, height |-> Some(<<"x">>), content |-> content,
     position |-> position, shot_ok |-> shot_ok]
ImgElement(src, geom, shot_ok) ==
    [src |-> src, width |-> None, height |-> Px100, geom |-> geom,
     shot_ok |-> shot_ok]
ObjectElement(data, src) == [data |-> data, src |-> src]

SiteInlineSvgs(kind) ==
    IF kind = "rich"
    THEN {InlineElement(Markup, TopLeft, TRUE),
          InlineElement(Markup, TopLeft, FALSE),
          InlineElement(Markup, None, TRUE),
          InlineElement(None, TopLeft, TRUE)}
    ELSE {InlineElement(Markup, TopLeft, TRUE)}

SiteImgSvgs(kind) ==
    IF kind = "rich"
    THEN {ImgElement(SvgSrc, Header, TRUE), ImgElement(SvgSrc, Unknown, FALSE),
          ImgElement(None, Body, TRUE)}
    ELSE {}

SiteObjectSvgs(kind) ==
    IF kind = "rich"
    THEN {ObjectElement(SvgSrc, None), ObjectElement(None, SvgSrc),
          ObjectElement(None, None)}
    ELSE {}

SeqsOf(S, n) == [1..n -> S]
SeqsUpTo(S, n) == UNION {SeqsOf(S, k) : k \in 0..n}
LinkList(n) == [k \in 1..n |-> k]

(***************************************************************************)
(* extract_images                                                          *)
(***************************************************************************)
CurrentUrl == links[i + 1]
CurrentPage == [kind |-> "page", link |-> CurrentUrl]

\* await page.goto(url, timeout=30000)
PageGoto ==
    /\ Await("page_goto", "page_wait", "page_except")
    /\ UNCHANGED <<classifyVars, authVars, scopeVars, crawlVars>>

\* await page.wait_for_load_state("load")
PageWait ==
    /\ Await("page_wait", "page_query", "page_except")
    /\ UNCHANGED <<classifyVars, authVars, scopeVars, crawlVars>>

\* images = await page.query_selector_all("img")
PageQuery ==
    /\ pc = "page_query"
    /\ \/ \E found \in SeqsUpTo(SiteImages(site), MaxElements - served) :
              /\ images' = found
              /\ served' = served + Len(found)
              /\ pc' = "page_image"
              /\ exc' = exc
       \/ /\ pc' = "page_except"
          /\ exc' = "page_query"
          /\ UNCHANGED <<images, served>>
    /\ page_lists' = [all_images |-> <<>>, meaningful_images |-> <<>>]
    /\ UNCHANGED <<classifyVars, authVars, scopeVars, links, site, i, opened,
                   failed, open_pages, result, aggregates, files>>

TakesScreenshot_of_every_image(image_data) == TRUE

\* if image_data.is_meaningful: the branch that takes the screenshot and
\* appends to meaningful_images
TakesScreenshot(image_data) == image_data.is_meaningful

\* One pass of the loop over images: classify, and for a meaningful image
\* take the screenshot and append to both lists.
PageImage ==
    /\ pc = "page_image"
    /\ images # <<>>
    /\ LET classified == is_meaningful_image(Head(images), CurrentUrl)
           Raise(at) ==
               /\ pc' = "page_except"
               /\ exc' = at
               /\ images' = <<>>
           Continue ==
               /\ UNCHANGED <<pc, exc>>
               /\ images' = Tail(images)
       IN  IF classified.raised
           THEN /\ Raise("is_meaningful_image")
                /\ UNCHANGED <<page_lists, open_pages>>
           ELSE IF IsNone(classified.value)
           THEN /\ Continue
                /\ UNCHANGED <<page_lists, open_pages>>
           ELSE LET image_data == Val(classified.value)
                IN  IF ~TakesScreenshot(image_data)
                    THEN /\ Continue
                         /\ page_lists' = [page_lists EXCEPT !.all_images =
                                               Append(@, image_data)]
                         /\ UNCHANGED open_pages
                    ELSE \E shot \in ShotOutcomes :
                           LET saved ==
                                   save_image_screenshot(image_data,
                                       Len(page_lists.meaningful_images), shot)
                               shown ==
                                   IF IsNone(saved.path) THEN image_data
                                   ELSE [image_data EXCEPT
                                            !.screenshot_path = saved.path]
                           IN  /\ IF saved.raised
                                  THEN /\ Raise("save_image_screenshot")
                                       /\ page_lists' =
                                              [page_lists EXCEPT !.all_images =
                                                  Append(@, image_data)]
                                  ELSE /\ Continue
                                       /\ page_lists' =
                                              [all_images |->
                                                 Append(page_lists.all_images,
                                                        shown),
                                               meaningful_images |->
                                                 Append(
                                                   page_lists.meaningful_images,
                                                   shown)]
                               /\ open_pages' =
                                      IF saved.left_open
                                      THEN open_pages \cup
                                           {[kind |-> "image_page",
                                             link |-> CurrentUrl]}
                                      ELSE open_pages
    /\ UNCHANGED <<classifyVars, authVars, scopeVars, links, site, i, opened,
                   failed, result, served, aggregates, files>>

\* svgs = await extract_svgs(page); return meaningful_images, all_images, svgs
PageSvgs ==
    /\ pc = "page_image"
    /\ images = <<>>
    /\ \/ \E a \in 0..(MaxElements - served) :
          \E b \in 0..(MaxElements - served - a) :
          \E c \in 0..(MaxElements - served - a - b) :
          \E inline \in SeqsOf(SiteInlineSvgs(site), a) :
          \E img \in SeqsOf(SiteImgSvgs(site), b) :
          \E object \in SeqsOf(SiteObjectSvgs(site), c) :
              /\ result' = <<page_lists.meaningful_images,
                             page_lists.all_images,
                             extract_svgs([inline |-> inline, img |-> img,
                                           object |-> object], CurrentUrl)>>
              /\ served' = served + a + b + c
              /\ pc' = "page_close"
              /\ exc' = exc
              /\ failed' = failed
       \/ /\ pc' = "page_except"
          /\ exc' = "extract_svgs"
          /\ UNCHANGED <<result, served, failed>>
    /\ page_lists' = [all_images |-> <<>>, meaningful_images |-> <<>>]
    /\ UNCHANGED <<classifyVars, authVars, scopeVars, links, site, i, opened,
                   open_pages, images, aggregates, files>>

PageExcept_returns_without_close ==
    /\ pc = "page_except"
    /\ result' = <<>>
    /\ failed' = failed \cup {CurrentUrl}
    /\ exc' = "none"
    /\ pc' = "crawl_unpack"
    /\ page_lists' = [all_images |-> <<>>, meaningful_images |-> <<>>]
    /\ UNCHANGED <<classifyVars, authVars, scopeVars, links, site, i, opened,
                   open_pages, images, served, aggregates, files>>

\* except Exception: print(...); return []
PageExcept ==
    /\ pc = "page_except"
    /\ result' = <<>>
    /\ failed' = failed \cup {CurrentUrl}
    /\ exc' = "none"
    /\ pc' = "page_close"
    /\ page_lists' = [all_images |-> <<>>, meaningful_images |-> <<>>]
    /\ UNCHANGED <<classifyVars, authVars, scopeVars, links, site, i, opened,
                   open_pages, images, served, aggregates, files>>

\* finally: await page.close()
PageClose ==
    /\ pc = "page_close"
    /\ open_pages' = open_pages \ {CurrentPage}
    /\ pc' = "crawl_unpack"
    /\ UNCHANGED <<classifyVars, exc, authVars, scopeVars, links, site, i,
                   opened, failed, images, page_lists, result, served,
                   aggregates, files>>

ExtractImages ==
    \/ PageGoto \/ PageWait \/ PageQuery \/ PageImage \/ PageSvgs
    \/ PageExcept \/ PageClose

(***************************************************************************)
(* crawl_links                                                             *)
(***************************************************************************)
\* async with async_playwright() as p; browser = await p.chromium.launch()
CrawlLaunch ==
    /\ Await("crawl_launch", "crawl_new_context", "crawl_finally")
    /\ playwright' = [playwright EXCEPT !["crawl_links"] = "active"]
    /\ browser' = [browser EXCEPT !["crawl_links"] =
                       IF exc' = "none" THEN "open" ELSE "unbound"]
    /\ UNCHANGED <<classifyVars, authVars, crawlVars>>

\* context = await browser.new_context(storage_state=AUTH_STATE_PATH);
\* os.makedirs(SCREENSHOT_DIR, exist_ok=True).  A missing file raises.
CrawlNewContext ==
    /\ pc = "crawl_new_context"
    /\ \E ok \in {TRUE, FALSE} :
           IF ok /\ artifact.exists
           THEN /\ pc' = "crawl_for"
                /\ exc' = exc
                /\ seeded' = [seeded EXCEPT !["crawl_links"] =
                                  Some(artifact.content)]
           ELSE /\ pc' = "crawl_finally"
                /\ exc' = "crawl_new_context"
                /\ seeded' = seeded
    /\ UNCHANGED <<classifyVars, artifact0, artifact, is_logged_in, login,
                   scopeVars, crawlVars>>

\* for i, link in enumerate(links): if i < 10: extract_images(context, link)
\* (which opens its page first) else: break
CrawlFor ==
    /\ pc = "crawl_for"
    /\ IF i < Len(links) /\ i < MaxCrawlLinks
       THEN /\ pc' = "page_goto"
            /\ opened' = Append(opened, CurrentUrl)
            /\ open_pages' = open_pages \cup {CurrentPage}
       ELSE /\ pc' = "crawl_write_meaningful"
            /\ UNCHANGED <<opened, open_pages>>
    /\ UNCHANGED <<classifyVars, exc, authVars, scopeVars, links, site, i,
                   failed, images, page_lists, result, served, aggregates,
                   files>>

CrawlUnpack_failure_ends_loop ==
    /\ pc = "crawl_unpack"
    /\ IF Len(result) = 3
       THEN /\ all_meaningful_images' = all_meaningful_images \o result[1]
            /\ all_images' = all_images \o result[2]
            /\ all_svgs' = all_svgs \o result[3]
            /\ i' = i + 1
            /\ pc' = "crawl_for"
       ELSE /\ pc' = "crawl_write_meaningful"
            /\ UNCHANGED <<aggregates, i>>
    /\ result' = <<>>
    /\ UNCHANGED <<classifyVars, exc, authVars, scopeVars, links, site,
                   opened, failed, open_pages, images, page_lists, served,
                   files>>

CrawlUnpack_extends_meaningful_with_all ==
    /\ pc = "crawl_unpack"
    /\ IF Len(result) = 3
       THEN /\ all_meaningful_images' = all_meaningful_images \o result[2]
            /\ all_images' = all_images \o result[2]
            /\ all_svgs' = all_svgs \o result[3]
            /\ i' = i + 1
            /\ pc' = "crawl_for"
            /\ exc' = exc
       ELSE /\ pc' = "crawl_finally"
            /\ exc' = "crawl_unpack"
            /\ UNCHANGED <<aggregates, i>>
    /\ result' = <<>>
    /\ UNCHANGED <<classifyVars, authVars, scopeVars, links, site, opened,
                   failed, open_pages, images, page_lists, served, files>>

\* meaningful_images, images, svgs = <what extract_images returned>;
\* the three extend calls; await asyncio.sleep(1)
CrawlUnpack ==
    /\ pc = "crawl_unpack"
    /\ IF Len(result) = 3
       THEN /\ all_meaningful_images' = all_meaningful_images \o result[1]
            /\ all_images' = all_images \o result[2]
            /\ all_svgs' = all_svgs \o result[3]
            /\ i' = i + 1
            /\ pc' = "crawl_for"
            /\ exc' = exc
       ELSE /\ pc' = "crawl_finally"
            /\ exc' = "crawl_unpack"
            /\ UNCHANGED <<aggregates, i>>
    /\ result' = <<>>
    /\ UNCHANGED <<classifyVars, authVars, scopeVars, links, site, opened,
                   failed, open_pages, images, page_lists, served, files>>

\* with open(name, "w") as f: json.dump(...): the file is complete, or
\* raising left it missing or cut short.
WriteFile(at, next, name) ==
    /\ pc = at
    /\ \/ /\ files' = Append(files, [name |-> name, complete |-> TRUE])
          /\ pc' = next
          /\ exc' = exc
       \/ /\ \/ files' = files
             \/ files' = Append(files, [name |-> name, complete |-> FALSE])
          /\ pc' = "crawl_finally"
          /\ exc' = at
    /\ UNCHANGED <<classifyVars, authVars, scopeVars, links, site, i, pageVars,
                   aggregates>>

CrawlWriteMeaningful ==
    WriteFile("crawl_write_meaningful", "crawl_write_all",
              "MEANINGFUL_IMAGE_FILE")

CrawlWriteAll ==
    WriteFile("crawl_write_all", "crawl_write_svgs", "ALL_IMAGES_FILE")

CrawlWriteSvgs ==
    WriteFile("crawl_write_svgs", "crawl_finally", "SVGS_FILE")

\* finally: await browser.close().  After a failed launch the name browser
\* is unbound and the statement raises in place of the first exception.
CrawlFinally ==
    /\ pc = "crawl_finally"
    /\ IF browser["crawl_links"] = "unbound"
       THEN /\ exc' = "crawl_finally"
            /\ browser' = browser
       ELSE /\ exc' = exc
            /\ browser' = [browser EXCEPT !["crawl_links"] = "closed"]
    /\ pc' = "crawl_exit"
    /\ UNCHANGED <<classifyVars, authVars, playwright, crawlVars>>

\* Leaving async with async_playwright()
CrawlExit ==
    /\ pc = "crawl_exit"
    /\ playwright' = [playwright EXCEPT !["crawl_links"] = "stopped"]
    /\ pc' = IF exc = "none" THEN "done" ELSE "aborted"
    /\ UNCHANGED <<classifyVars, exc, authVars, browser, crawlVars>>

CrawlLinks ==
    \/ CrawlLaunch \/ CrawlNewContext \/ CrawlFor \/ CrawlUnpack
    \/ CrawlWriteMeaningful \/ CrawlWriteAll \/ CrawlWriteSvgs
    \/ CrawlFinally \/ CrawlExit

(***************************************************************************)
(* main, and the specifications.                                           *)
(***************************************************************************)
\* await authenticate(); link = URL; await crawl_links([link])
MainCrawl ==
    /\ pc = "main_crawl"
    /\ pc' = "crawl_launch"
    /\ UNCHANGED <<classifyVars, exc, authVars, scopeVars, crawlVars>>

\* A run of the program: any artifact on disk, the one configured link.
Init ==
    /\ call = [fn |-> "idle", args |-> <<>>]
    /\ ret = None
    /\ InitRun("auth_launch")
    /\ artifact0 \in StartArtifacts
    /\ artifact = artifact0
    /\ links = <<URL>>
    /\ site \in Sites

Next == Authenticate \/ MainCrawl \/ ExtractImages \/ CrawlLinks

Spec == Init /\ [][Next]_vars

\* crawl_links called on its own with any list of links.
InitCrawl ==
    /\ call = [fn |-> "idle", args |-> <<>>]
    /\ ret = None
    /\ InitRun("crawl_launch")
    /\ artifact0 \in {NoArtifact, CachedArtifact(0)}
    /\ artifact = artifact0
    /\ links \in {LinkList(n) : n \in 0..MaxLinks}
    /\ site \in Sites
    /\ site = "rich" => links = <<URL>>

NextCrawl == ExtractImages \/ CrawlLinks

SpecCrawl == InitCrawl /\ [][NextCrawl]_vars

(***************************************************************************)
(* The classifier called on its own: each action is one call of one of     *)
(* the functions above on inputs drawn from the bounded sets; call holds   *)
(* the function and its arguments, ret what it returned.  The functions    *)
(* keep no state, so a behaviour is one call.                              *)
(***************************************************************************)
\* Attribute texts used where whole image elements are enumerated.
SampleAttrs ==
    {None, Some(<<>>), Some(<<"x">>), Some(<<"1", "0", "0">>),
     Some(<<"1", "0", "1">>)}

SrcAttrs == {None, Some(<<>>), Some(RelativeSrc), Some(HttpsSrc)}

ImageElements ==
    [src : SrcAttrs, alt : {None}, geom : GeometryProbes, probe : SizeProbes,
     width : SampleAttrs, height : SampleAttrs, detached : BOOLEAN]

Idle == [fn |-> "idle", args |-> <<>>]

CallIsHeaderFooterLogo ==
    /\ call = Idle
    /\ \E geom \in GeometryProbes :
           /\ call' = [fn |-> "is_header_footer_logo", args |-> <<geom>>]
           /\ ret' = is_header_footer_logo(geom)
    /\ UNCHANGED <<pc, exc, authVars, scopeVars, crawlVars>>

CallCheckFileImageSize ==
    /\ call = Idle
    /\ \E probe \in SizeProbes :
           /\ call' = [fn |-> "check_file_image_size", args |-> <<probe>>]
           /\ ret' = check_file_image_size(probe)
    /\ UNCHANGED <<pc, exc, authVars, scopeVars, crawlVars>>

CallCheckImageSize ==
    /\ call = Idle
    /\ \E width \in AttrValues, height \in AttrValues :
           /\ call' = [fn |-> "check_image_size", args |-> <<width, height>>]
           /\ ret' = check_image_size(width, height)
    /\ UNCHANGED <<pc, exc, authVars, scopeVars, crawlVars>>

CallIsMeaningfulImage ==
    /\ call = Idle
    /\ \E image \in ImageElements :
           /\ call' = [fn |-> "is_meaningful_image", args |-> <<image>>]
           /\ ret' = is_meaningful_image(image, URL)
    /\ UNCHANGED <<pc, exc, authVars, scopeVars, crawlVars>>

\* The element lists a page can answer extract_svgs with.
FoundSvgs ==
    UNION {[inline : SeqsOf(SiteInlineSvgs("rich"), a),
            img : SeqsOf(SiteImgSvgs("rich"), b),
            object : SeqsOf(SiteObjectSvgs("rich"), c)] :
               <<a, b, c>> \in {t \in (0..MaxElements) \X (0..MaxElements)
                                       \X (0..MaxElements) :
                                    t[1] + t[2] + t[3] <= MaxElements}}

CallExtractSvgs ==
    /\ call = Idle
    /\ \E found \in FoundSvgs :
           /\ call' = [fn |-> "extract_svgs", args |-> <<found>>]
           /\ ret' = extract_svgs(found, URL)
    /\ UNCHANGED <<pc, exc, authVars, scopeVars, crawlVars>>

InitClassify ==
    /\ call = Idle
    /\ ret = None
    /\ InitRun("idle")
    /\ artifact0 = NoArtifact
    /\ artifact = NoArtifact
    /\ links = <<>>
    /\ site = "plain"

NextClassify ==
    \/ CallIsHeaderFooterLogo
    \/ CallCheckFileImageSize
    \/ CallCheckImageSize
    \/ CallIsMeaningfulImage
    \/ CallExtractSvgs

SpecClassify == InitClassify /\ [][NextClassify]_vars

(***************************************************************************)
(* Claims about the classifier.                                            *)
(***************************************************************************)
\* The record returned by the last call of is_meaningful_image, if any.
Returned(fn) == call.fn = fn
ReturnedRecord ==
    Returned("is_meaningful_image") /\ ~ret.raised /\ ~IsNone(ret.value)

\* The size probe failed or the resource declares no content length.
SizeUnknown(probe) ==
    probe.kind \in {"evaluate_raises", "fetch_fails", "no_content_length"}

\* C8: whenever the size probe fails (the page-level evaluation raises or
\* the in-page fetch throws) or the resource declares no content length,
\* the returned record has file_size 0, never None, and is_large_file false.
C8_UnknownSizeIsZero ==
    /\ (Returned("check_file_image_size") /\ SizeUnknown(call.args[1]))
           => ret = <<Some(0), FALSE>>
    /\ (ReturnedRecord /\ SizeUnknown(call.args[1].probe))
           => /\ Val(ret.value).file_size = Some(0)
              /\ ~Val(ret.value).is_large_file

\* C9: for every byte size n the size probe returns, is_large_file is true
\* exactly when n > 10240 (10240 gives false, 10241 gives true).
C9_LargeIffAboveThreshold ==
    (Returned("check_file_image_size") /\ call.args[1].kind = "content_length")
        => /\ ret[1] = Some(call.args[1].n)
           /\ ret[2] = (call.args[1].n > 10240)

C9_Witness ==
    /\ Returned("check_file_image_size")
    /\ call.args[1].kind = "content_length"
    /\ call.args[1].n = 10240
    /\ ret[2] = FALSE

\* The attribute is present, parses as an integer, and that exceeds n.
ParsesAbove(attr, n) ==
    /\ ~IsNone(attr)
    /\ ~IsNone(ParseInt(Val(attr)))
    /\ Val(ParseInt(Val(attr))) > n

\* C10: has_image_shape is true exactly when both declared attributes parse
\* as integers and both are greater than 100; width and height are the
\* parsed integers when it is true and None when it is false.
C10_ShapeIffBothAbove100 ==
    Returned("check_image_size")
        => LET width == call.args[1]
               height == call.args[2]
           IN  /\ ret[3] = (ParsesAbove(width, 100) /\ ParsesAbove(height, 100))
               /\ ret[3] => /\ ret[1] = ParseInt(Val(width))
                            /\ ret[2] = ParseInt(Val(height))
               /\ ~ret[3] => (ret[1] = None /\ ret[2] = None)

C10_Witness ==
    /\ Returned("check_image_size")
    /\ call.args = <<Some(<<"1", "0", "1">>), Some(<<"1", "1", "0">>)>>
    /\ ret = <<Some(101), Some(110), TRUE>>

(***************************************************************************)
(* Claims about authenticate and main.                                     *)
(***************************************************************************)
AuthPcs ==
    {"auth_launch", "auth_check", "auth_exit", "login_except"}
    \cup ValidationSteps \cup LoginSteps
\* authenticate is over: it returned to main, or its exception ended the run.
AuthenticateReturned == pc \notin AuthPcs /\ pc # "aborted"
AuthenticateRaised == pc = "aborted" /\ playwright["crawl_links"] = "idle"
CrawlNotStarted ==
    /\ playwright["crawl_links"] = "idle"
    /\ browser["crawl_links"] = "unbound"
    /\ opened = <<>>
    /\ files = <<>>

StaleAtStart == artifact0.exists /\ artifact0.age >= AUTH_MAX_AGE
WithinAgeAtStart == artifact0.exists /\ artifact0.age < AUTH_MAX_AGE

\* C2: when the artifact found at the start of the run is as old as the
\* maximum age or older, no context is seeded from it: authenticate opens
\* no context with it, and the context of crawl_links is seeded only from
\* the artifact written by the login of this run.
C2_StaleArtifactNeverSeeds ==
    StaleAtStart
        => /\ seeded["authenticate"] = None
           /\ seeded["crawl_links"] # None
                  => /\ seeded["crawl_links"] = Some("login")
                     /\ login.saved = 1

C2_Witness ==
    /\ StaleAtStart
    /\ artifact0.age = AUTH_MAX_AGE
    /\ seeded["crawl_links"] = Some("login")

\* C3: when the artifact is within the maximum age and the login-presence
\* predicate evaluated on the seeded context is false, the fresh login flow
\* is performed next, and when authenticate then returns the artifact on
\* disk is the newly serialized state.
C3_ExpiredSessionLogsInAgain ==
    (WithinAgeAtStart /\ is_logged_in = Some(FALSE))
        => /\ pc = "login_new_context" \/ login.attempts = 1
           /\ (pc = "auth_exit" /\ exc = "none")
                  => /\ artifact = LoginArtifact
                     /\ LoginSteps \subseteq login.done

C3_Witness ==
    /\ WithinAgeAtStart
    /\ seeded["authenticate"] = Some("cached")
    /\ is_logged_in = Some(FALSE)
    /\ pc = "auth_exit"
    /\ exc = "none"
    /\ artifact = LoginArtifact

\* C4: every way a within-age cached session fails to validate, the
\* validation steps raising included, leads to the fresh login flow; a
\* failure of a validation step never reaches the caller of authenticate.
C4_ValidationFailureLeadsToLogin ==
    /\ exc \in ValidationSteps => pc # "aborted"
    /\ (WithinAgeAtStart /\ browser["authenticate"] # "unbound"
            /\ is_logged_in # Some(TRUE)
            /\ (AuthenticateReturned \/ AuthenticateRaised))
           => login.attempts = 1

\* The login steps inside the try block, and the login flow having been
\* left before its last step completed.
TrySteps == LoginSteps \ {"login_new_context", "login_goto"}
LoginFailed ==
    /\ login.attempts > 0
    /\ "login_save_state" \notin login.done
    /\ pc \notin LoginSteps \cup {"login_except", "auth_exit"}

\* C5: when a step of the fresh login flow fails, the browser authenticate
\* launched is no longer running (closed by the except branch for the steps
\* inside the try block), the failure reaches the caller after a single
\* attempt, and crawl_links is never started.
C5_LoginFailureIsFatal ==
    /\ login.attempts <= 1
    /\ LoginFailed
           => /\ pc = "aborted"
              /\ exc \in LoginSteps
              /\ ~BrowserLive("authenticate")
              /\ exc \in TrySteps => browser["authenticate"] = "closed"
              /\ CrawlNotStarted

C5_Witness ==
    /\ LoginFailed
    /\ exc = "login_click"
    /\ browser["authenticate"] = "closed"
    /\ pc = "aborted"

\* C6: the artifact on disk is written during authenticate exactly when the
\* login flow ran all its steps through serialization: a cache hit performs
\* no login step and leaves the artifact as it was, and so does a login
\* step that fails before serialization.
C6_ArtifactWrittenIffLoginCompleted ==
    /\ artifact # artifact0 <=> LoginSteps \subseteq login.done
    /\ artifact # artifact0 => artifact = LoginArtifact /\ login.saved = 1
    /\ is_logged_in = Some(TRUE)
           => login.attempts = 0 /\ login.done = {} /\ artifact = artifact0
    /\ exc \in LoginSteps => artifact = artifact0

C6_Witness ==
    /\ artifact0.exists
    /\ exc = "login_wait"
    /\ pc = "aborted"
    /\ artifact = artifact0

(***************************************************************************)
(* Claims about crawl_links and extract_images.                            *)
(***************************************************************************)
Min(a, b) == IF a < b THEN a ELSE b
Range(seq) == {seq[k] : k \in 1..Len(seq)}
CrawlEnded == pc \in {"done", "aborted"}

\* Every image record the crawl holds: in the lists of the page being
\* processed, in the value extract_images returned, in the aggregates.
HeldImages ==
    Range(page_lists.all_images) \cup Range(page_lists.meaningful_images)
    \cup (IF Len(result) = 3 THEN Range(result[1]) \cup Range(result[2])
          ELSE {})
    \cup Range(all_images) \cup Range(all_meaningful_images)

\* C1: when the processing of a link fails inside extract_images, the
\* failure is caught, that page contributes no record to the three
\* aggregates, and crawl_links goes on through the first 10 links and
\* finishes normally.
C1_FailedPageIsSkipped ==
    \A u \in failed :
        /\ \A r \in Range(all_images) \cup Range(all_meaningful_images)
                    \cup Range(all_svgs) : r.url # u
        /\ CrawlEnded
               => /\ pc = "done"
                  /\ opened = LinkList(Min(Len(links), MaxCrawlLinks))

\* C7: every image record has is_meaningful true exactly when is_logo is
\* false, is_large_file is true and has_image_shape is true, as returned by
\* is_meaningful_image and at every later point of extract_images and
\* crawl_links.
C7_MeaningfulIsConjunction ==
    \A r \in HeldImages :
        r.is_meaningful
            = (r.is_logo = FALSE /\ r.is_large_file = TRUE
               /\ r.has_image_shape = TRUE)

C7_Witness ==
    /\ pc = "done"
    /\ \E r \in Range(all_meaningful_images) :
           r.is_meaningful /\ r.screenshot_path # None /\ r.is_header = None
    /\ \E r \in Range(all_images) : ~r.is_meaningful /\ r.file_size = None

\* C11: an image element whose src attribute is absent or empty is skipped:
\* is_meaningful_image returns no record whatever the probes of the element
\* would yield, the pass of extract_images over it adds nothing to the
\* all-images or the meaningful-images list and goes on with the next
\* element, and every image record held has a non-empty src.
C11_NoSrcNoRecord ==
    /\ [](\A r \in HeldImages : r.src # <<>>)
    /\ [][pc = "page_image" /\ images # <<>>
             /\ ~Truthy(Head(images).src) /\ ~Head(images).detached
          => /\ \A geom \in GeometryProbes : \A probe \in SizeProbes :
                    is_meaningful_image(
                        [Head(images) EXCEPT !.geom = geom, !.probe = probe],
                        CurrentUrl)
                    = [raised |-> FALSE, value |-> None]
             /\ page_lists' = page_lists
             /\ images' = Tail(images)
             /\ open_pages' = open_pages
             /\ pc' = pc /\ exc' = exc]_vars

\* A page of two image elements gave one record: the other had no src.
C11_Witness ==
    /\ pc = "page_image"
    /\ images = <<>>
    /\ served = 2
    /\ Len(page_lists.all_images) = 1
    /\ site = "rich"

\* The pages opened so far are the first entries of the list, each once and
\* in list order, and none of them is at index 10 or later.
OpenedInOrderWithinCap ==
    /\ Len(opened) <= Min(Len(links), MaxCrawlLinks)
    /\ \A k \in 1..Len(opened) : opened[k] = links[k]

\* C12: for every list of links passed to crawl_links, the links for which
\* a page is opened are exactly the first min(10, length) entries, each
\* opened once and in list order, and no page is opened for an entry at
\* index 10 or later: once the browser and its context exist, the run ends
\* with a page opened for each of those entries.
C12_ExactlyFirstTenOpened ==
    /\ OpenedInOrderWithinCap
    /\ CrawlEnded /\ seeded["crawl_links"] # None
           => opened = LinkList(Min(Len(links), MaxCrawlLinks))

\* Every vector-graphic record the crawl holds: in the value extract_images
\* returned (its third part is what extract_svgs returned), in the aggregate.
HeldSvgs ==
    (IF Len(result) = 3 THEN Range(result[3]) ELSE {}) \cup Range(all_svgs)

\* C13: every ScrapedSVG record produced by extract_svgs, from inline svg
\* elements, img elements with an .svg source or object/embed elements, has
\* exactly one of content and src populated: content and no src when
\* is_inline is true, src and no content when is_inline is false.
C13_ContentXorSrcByInline ==
    \A r \in HeldSvgs :
        IF r.is_inline
        THEN r.content # None /\ Val(r.content) # "" /\ r.src = None
        ELSE Truthy(r.src) /\ r.content = None

\* A finished crawl holding an inline record and an img-referenced one
\* next to each other.
C13_Witness ==
    /\ pc = "done"
    /\ Len(all_svgs) = 2
    /\ all_svgs[1].is_inline /\ all_svgs[1].content = Markup
    /\ ~all_svgs[2].is_inline /\ all_svgs[2].src = SvgSrc
    /\ all_svgs[2].height = Some(100)

\* C14: whenever the second tier of save_image_screenshot opens a secondary
\* page for an absolute locator, that page is closed before
\* save_image_screenshot returns, whether the navigation and the page
\* screenshot succeeded or one of them failed: between two steps of
\* extract_images no secondary page is open.
C14_SecondaryPageClosed ==
    \A p \in open_pages : p.kind # "image_page"

\* The record a pass of extract_images makes of the element at the head of
\* images, None when the pass raises or skips the element.
HeadRecord ==
    IF pc = "page_image" /\ images # <<>>
       /\ ~is_meaningful_image(Head(images), CurrentUrl).raised
    THEN is_meaningful_image(Head(images), CurrentUrl).value
    ELSE None

Last(seq) == seq[Len(seq)]

\* C15: save_image_screenshot never raises to its caller; it tries the
\* in-page element screenshot first and the secondary page only when the
\* first tier gave no screenshot and the locator starts with http:// or
\* https://; it returns a path exactly when one of the tiers it tried
\* succeeded, and otherwise null.  Whatever it returns, extract_images
\* appends the meaningful image to both lists, with screenshot_path null
\* when null was returned, and goes on with the next element.
C15_ScreenshotFailureIsNotFatal ==
    [][HeadRecord # None /\ Val(HeadRecord).is_meaningful
       => LET image_data == Val(HeadRecord)
              index == Len(page_lists.meaningful_images)
              filepath == Some(FilePath(image_data.src, index))
          IN  /\ \A shot \in ShotOutcomes :
                    LET saved == save_image_screenshot(image_data, index, shot)
                        first == shot.element = "found"
                        second == ~first /\ StartsWithHttp(image_data.src)
                    IN  /\ ~saved.raised
                        /\ saved.tiers = IF second THEN <<"element", "direct">>
                                         ELSE <<"element">>
                        /\ saved.path =
                               IF first \/ (second /\ shot.direct = "ok")
                               THEN filepath ELSE None
              /\ pc' = pc /\ exc' = exc /\ images' = Tail(images)
              /\ \E path \in {None, filepath} :
                    LET r == [image_data EXCEPT !.screenshot_path = path]
                    IN  page_lists' =
                            [all_images |-> Append(page_lists.all_images, r),
                             meaningful_images |->
                                 Append(page_lists.meaningful_images, r)]
              /\ ~StartsWithHttp(image_data.src)
                     => open_pages' = open_pages]_vars

\* Both tiers failed for a meaningful image with an absolute locator: it is
\* in both lists without a screenshot and the loop is at the next element.
C15_Witness ==
    /\ pc = "page_image"
    /\ images # <<>>
    /\ page_lists.meaningful_images # <<>>
    /\ Last(page_lists.meaningful_images).screenshot_path = None
    /\ StartsWithHttp(Last(page_lists.meaningful_images).src)
    /\ Last(page_lists.all_images) = Last(page_lists.meaningful_images)

\* C16: for every raster image processed by extract_images the screenshot
\* step is invoked only if the record's is_meaningful is true, and a
\* record's screenshot_path is non-null only if a capture for that record
\* succeeded: a record with is_meaningful false is appended as classified,
\* without a screenshot and without a secondary page being opened, every
\* record with a screenshot_path is meaningful and its path is the one
\* made from its own src, and a step whose capture left a secondary page
\* behind appends its record without a path.
C16_ScreenshotOnlyOfMeaningful ==
    /\ [](\A r \in HeldImages :
              /\ ~r.is_meaningful => r.screenshot_path = None
              /\ r.screenshot_path # None
                     => \E index \in 0..MaxElements :
                            r.screenshot_path = Some(FilePath(r.src, index)))
    /\ [][HeadRecord # None /\ ~Val(HeadRecord).is_meaningful
             => /\ open_pages' = open_pages
                /\ page_lists' = [page_lists EXCEPT !.all_images =
                                      Append(@, Val(HeadRecord))]]_vars
    /\ [][HeadRecord # None /\ open_pages' # open_pages
             => /\ Val(HeadRecord).is_meaningful
                /\ Last(page_lists'.meaningful_images).screenshot_path
                       = None]_vars

\* A finished crawl of a page with the same image twice, once answering
\* the size probe with 500 bytes: that record has no screenshot, the other
\* has one.
C16_Witness ==
    /\ pc = "done"
    /\ \E r \in Range(all_images) :
           /\ r.file_size = Some(500) /\ ~r.is_large_file /\ ~r.is_logo
           /\ r.has_image_shape /\ ~r.is_meaningful
           /\ r.screenshot_path = None
    /\ \E r \in Range(all_images) :
           /\ r.file_size = Some(20000) /\ r.is_meaningful
           /\ r.screenshot_path = Some(FilePath(r.src, 0))

OutputFiles == {"MEANINGFUL_IMAGE_FILE", "ALL_IMAGES_FILE", "SVGS_FILE"}
LoopSteps == {"crawl_launch", "crawl_new_context", "crawl_unpack"}

\* C17: crawl_links writes no output file before every link among the
\* first 10 has been processed and aggregated, writes each of the three
\* files at most once in a run, and writes none in a run that aborts before
\* the loop over the links has finished.
C17_OutputsWrittenOnceAfterLoop ==
    /\ files # <<>>
           => /\ i = Min(Len(links), MaxCrawlLinks)
              /\ opened = LinkList(i)
              /\ failed = {}
              /\ pc \notin {"crawl_launch", "crawl_new_context", "crawl_for",
                            "crawl_unpack", "crawl_write_meaningful",
                            "page_goto", "page_wait", "page_query",
                            "page_image", "page_except", "page_close"}
    /\ \A k \in 1..Len(files) :
           /\ files[k].name \in OutputFiles
           /\ \A m \in 1..Len(files) : files[m].name = files[k].name => m = k
    /\ exc \in LoopSteps \/ i < Min(Len(links), MaxCrawlLinks) => files = <<>>

\* Eleven links, ten processed, then the three files, each once.
C17_Witness ==
    /\ pc = "done"
    /\ Len(links) = 11
    /\ i = 10
    /\ [k \in 1..Len(files) |-> files[k].name]
           = <<"MEANINGFUL_IMAGE_FILE", "ALL_IMAGES_FILE", "SVGS_FILE">>

\* The pages extract_images opened with context.new_page() and has not
\* closed, and the steps between that call and its return.
UrlPages == {p \in open_pages : p.kind = "page"}
ExtractImagesPcs ==
    {"page_goto", "page_wait", "page_query", "page_image", "page_except",
     "page_close"}

\* C18: the page extract_images opens for a link is closed before
\* extract_images returns, on the success path and on every failure path
\* (navigation, load wait, classification, svg extraction), and the pages
\* of two different links are never open at the same time: while
\* extract_images runs the one page open is that of the current link, and
\* outside it none is.
C18_PageClosedPerUrl ==
    IF pc \in ExtractImagesPcs
    THEN UrlPages = {CurrentPage}
    ELSE UrlPages = {}

\* The second link failed after the first succeeded, and extract_images
\* has returned with its page closed.
C18_Witness ==
    /\ pc = "crawl_unpack"
    /\ opened = <<1, 2>>
    /\ failed = {2}
    /\ result = <<>>
    /\ UrlPages = {}

\* C19: every browser launched during a run, in authenticate and in
\* crawl_links, has been released when the run ends, on every exit path
\* (normal completion, a cache hit, a login failure, a failed launch or
\* context creation in crawl_links, an exception while crawling or writing
\* the outputs), and the cleanup raises no new error in place of the
\* original failure.
C19_BrowsersReleasedQuietly ==
    /\ CrawlEnded => \A f \in Functions : ~BrowserLive(f)
    /\ exc # "crawl_finally"

(***************************************************************************)
(* Claims about extract_svgs called on its own.                            *)
(***************************************************************************)
Count(seq, Test(_)) == Cardinality({k \in DOMAIN seq : Test(seq[k])})
HasMarkup(svg) == svg.content # None
HasLocator(img) == Truthy(img.src)
HasDataOrSrc(obj) == Truthy(obj.data) \/ Truthy(obj.src)

\* C20: every vector graphic that extract_svgs discovers and that has its
\* markup or a resource locator is in the returned sequence, also when its
\* geometry probe or its screenshot fails, for inline svg elements as for
\* img-referenced ones: the sequence has one record for each such element,
\* and a record made after a geometry failure has no zone flags and
\* is_logo false.
C20_EverySvgRetained ==
    Returned("extract_svgs")
        => /\ Len(ret) = Count(call.args[1].inline, HasMarkup)
                         + Count(call.args[1].img, HasLocator)
                         + Count(call.args[1].object, HasDataOrSrc)
           /\ \A k \in 1..Len(ret) :
                  ret[k].is_header = None
                      => ret[k].is_footer = None /\ ~ret[k].is_logo

(***************************************************************************)
(* Claims about the two image lists.                                       *)
(***************************************************************************)
Meaningful(r) == r.is_meaningful

\* C21: after any sequence of pages processed by crawl_links the aggregated
\* meaningful-images list is exactly the sub-sequence of the aggregated
\* all-images list made of the records whose is_meaningful is true, in the
\* same order; the same holds of the two lists extract_images builds for
\* a page and of the pair it returns.
C21_MeaningfulIsFilterOfAll ==
    /\ all_meaningful_images = SelectSeq(all_images, Meaningful)
    /\ page_lists.meaningful_images
           = SelectSeq(page_lists.all_images, Meaningful)
    /\ Len(result) = 3 => result[1] = SelectSeq(result[2], Meaningful)

\* Two pages aggregated: the first gave a record that is not meaningful,
\* the second a meaningful one, which alone is in the meaningful list.
C21_Witness ==
    /\ pc = "done"
    /\ Len(all_images) = 2
    /\ all_images[1].url = 1 /\ ~all_images[1].is_meaningful
    /\ all_images[2].url = 2 /\ all_images[2].is_meaningful
    /\ all_meaningful_images = <<all_images[2]>>

====
